---- MODULE Spec2Model ----
(***************************************************************************)
(* Model of tensorflow_data_validation/anomalies/schema_anomalies.cc:      *)
(* the per-feature anomaly accumulator (SchemaAnomaly), the reason         *)
(* aggregation used when rendering it, and the orchestrator                *)
(* (SchemaAnomalies) that reconciles a statistics tree with a baseline     *)
(* schema.                                                                 *)
(*                                                                         *)
(* Four specifications share the module:                                   *)
(*   Spec        the SchemaAnomalies object under FindChanges / FindSkew / *)
(*               GetSchemaDiff calls;                                      *)
(*   SpecGenericUpdate  the same object under single GenericUpdate calls;  *)
(*   SpecAcc     one SchemaAnomaly under its four mutating operations;     *)
(*   SpecRender  GetAnomalyInfoCommon applied to bounded inputs.           *)
(***************************************************************************)
EXTENDS Naturals, Sequences, FiniteSets, TLC

VARIABLES
    serialized_baseline_,  \* SchemaAnomalies: the baseline schema proto
    anomalies_,            \* SchemaAnomalies: map Path -> SchemaAnomaly
    statistics,            \* the dataset of this validation run
    features_needed,       \* the optional required-paths set of this run
    ncalls,                \* number of orchestrator calls made so far
    last,                  \* record of the last orchestrator call
    acc,                   \* SpecAcc: the accumulator under test
    hist,                  \* SpecAcc: the operations applied to acc so far
    rin,                   \* SpecRender: the accumulator handed to render
    rout                   \* SpecRender: the rendered AnomalyInfo

vars == <<serialized_baseline_, anomalies_, statistics, features_needed,
          ncalls, last, acc, hist, rin, rout>>

orchVars == <<serialized_baseline_, anomalies_, statistics, features_needed,
              ncalls, last>>
accVars == <<acc, hist>>
renderVars == <<rin, rout>>

(***************************************************************************)
(* Bounds of the model.                                                    *)
(***************************************************************************)
MaxCalls == 2     \* orchestrator calls per run
MaxOps == 3       \* operations applied to the accumulator of SpecAcc
MaxLen == 3       \* length of the description list given to render

(***************************************************************************)
(* Severity, AnomalyInfo::Type and Description.                            *)
(***************************************************************************)
Severity == {"UNKNOWN", "WARNING", "ERROR"}

NumericalSeverity(a) ==
    CASE a = "UNKNOWN" -> 0
      [] a = "WARNING" -> 1
      [] a = "ERROR" -> 2

MaxSeverity(a, b) ==
    IF NumericalSeverity(a) > NumericalSeverity(b) THEN a ELSE b

kMultipleErrors == "Multiple errors"
kColumnDropped == "Column dropped"

Description(type, short, long) ==
    [type |-> type, short_description |-> short, long_description |-> long]

\* Description(): the default-constructed value the unification starts from.
EmptyDescription == Description("UNKNOWN_TYPE", "", "")

MissingColumnDescription ==
    Description("SCHEMA_MISSING_COLUMN", kColumnDropped,
                "Column is completely missing")

(***************************************************************************)
(* Reason aggregation: filter and unify.                                   *)
(***************************************************************************)
AllSchemaNewColumn(descriptions) ==
    \A i \in 1..Len(descriptions) :
        descriptions[i].type = "SCHEMA_NEW_COLUMN"

FilterDescriptionsKeepAll(descriptions) == descriptions

FilterDescriptions(descriptions) ==
    IF descriptions /= <<>> /\ AllSchemaNewColumn(descriptions)
    THEN <<descriptions[1]>>
    ELSE descriptions

\* The lambda handed to std::accumulate.
UnifyStepNoSpace(description_a, description_b) ==
    IF description_a.long_description = "" THEN description_b
    ELSE IF description_b.long_description = "" THEN description_a
    ELSE Description("UNKNOWN_TYPE", kMultipleErrors,
                     description_a.long_description
                        \o description_b.long_description)

UnifyStep(description_a, description_b) ==
    IF description_a.long_description = "" THEN description_b
    ELSE IF description_b.long_description = "" THEN description_a
    ELSE Description("UNKNOWN_TYPE", kMultipleErrors,
                     description_a.long_description \o " "
                        \o description_b.long_description)

RECURSIVE Accumulate(_, _)
Accumulate(descriptions, init) ==
    IF descriptions = <<>> THEN init
    ELSE Accumulate(Tail(descriptions), UnifyStep(init, Head(descriptions)))

UnifyDescriptions(descriptions) == Accumulate(descriptions, EmptyDescription)

(***************************************************************************)
(* Paths of the feature universe: a struct feature a with child a.c, and   *)
(* a flat feature b.                                                       *)
(***************************************************************************)
Paths == {<<"a">>, <<"a", "c">>, <<"b">>}

IsRoot(path) == Len(path) = 1

Parent(path) == SubSeq(path, 1, Len(path) - 1)

(***************************************************************************)
(* Schema (schema.h): the collaborator holding, per feature, whether it    *)
(* exists and whether it is deprecated.  A schema proto and a Schema       *)
(* object are both a record [valid, feat]; Init of a malformed proto       *)
(* fails.                                                                  *)
(***************************************************************************)
FeatureStates == {"absent", "active", "deprecated"}

NoFeatures == [p \in Paths |-> "absent"]

\* A default-constructed Schema, also standing for a null schema_ pointer.
NullSchema == [valid |-> FALSE, feat |-> NoFeatures]

SchemaInit(proto) ==
    IF proto.valid
    THEN [ok |-> TRUE, schema |-> [valid |-> TRUE, feat |-> proto.feat]]
    ELSE [ok |-> FALSE, schema |-> NullSchema]

SchemaFeatureExists(schema, path) == schema.feat[path] /= "absent"

SchemaFeatureIsDeprecated(schema, path) == schema.feat[path] = "deprecated"

SchemaDeprecateFeature(schema, path) ==
    IF schema.feat[path] = "absent" THEN schema
    ELSE [schema EXCEPT !.feat[path] = "deprecated"]

\* Paths of the schema that are not deprecated and have no statistics, in
\* path order (a, a.c, b).
PathOrder == <<(<<"a">>), (<<"a", "c">>), (<<"b">>)>>

InStats(stats, path) == \E i \in 1..Len(stats) : stats[i] = path

SchemaGetMissingPaths(schema, stats) ==
    SelectSeq(PathOrder,
              LAMBDA p : /\ schema.feat[p] = "active"
                         /\ ~InStats(stats, p))

\* Effect of Schema::Update on the schema it is called on: the evaluator
\* may decide that the feature is to be dropped.
SchemaUpdate(schema, path, res) ==
    IF res.ok /\ res.deprecate THEN SchemaDeprecateFeature(schema, path)
    ELSE schema

\* Effect of Schema::UpdateRecursively: the new feature enters the schema.
SchemaUpdateRecursively(schema, path, res) ==
    IF res.ok THEN [schema EXCEPT !.feat[path] = "active"] ELSE schema

(***************************************************************************)
(* Answers of the external collaborators.  An evaluator answer is          *)
(* [ok, descriptions, severity, deprecate]; a skew comparator answer is a  *)
(* description list.                                                       *)
(***************************************************************************)
EvalDescription ==
    Description("FLOAT_TYPE_BIG_FLOAT", "Unexpectedly large value", "Big")

NewColumnDescription ==
    Description("SCHEMA_NEW_COLUMN", "New column", "New column (absent)")

SkewDescription ==
    Description("COMPARATOR_L_INFTY_HIGH", "High Linfty distance", "Skew")

EvalResult(ok, descriptions, severity, deprecate) ==
    [ok |-> ok, descriptions |-> descriptions, severity |-> severity,
     deprecate |-> deprecate]

\* A failing call may already have written to its output parameters.
EvalFailure == EvalResult(FALSE, <<EvalDescription>>, "ERROR", FALSE)

CreateFailure == EvalResult(FALSE, <<NewColumnDescription>>, "ERROR", FALSE)

\* The answer recorded for an operation that consults no collaborator.
NoAnswer == EvalResult(TRUE, <<>>, "UNKNOWN", FALSE)

\* A skew comparator's answer: descriptions only.
SkewAnswer(descriptions) == EvalResult(TRUE, descriptions, "UNKNOWN", FALSE)

\* Schema::Update on a feature of the schema.
UpdateResults ==
    {EvalFailure,
     EvalResult(TRUE, <<>>, "UNKNOWN", FALSE),
     EvalResult(TRUE, <<EvalDescription>>, "WARNING", FALSE),
     EvalResult(TRUE, <<EvalDescription>>, "ERROR", TRUE)}

\* Schema::UpdateRecursively on a feature that is not in the schema: one
\* description per created node of the subtree.
CreateResults ==
    {CreateFailure,
     EvalResult(TRUE, <<NewColumnDescription>>, "ERROR", FALSE),
     EvalResult(TRUE, <<NewColumnDescription, NewColumnDescription>>,
                "ERROR", FALSE)}

SkewResults == {<<>>, <<SkewDescription>>}

(***************************************************************************)
(* SchemaAnomaly: the per-feature accumulator.                             *)
(***************************************************************************)
\* SchemaAnomaly(): severity_ UNKNOWN, everything else default-constructed.
NewSchemaAnomaly ==
    [schema_ |-> NullSchema, path_ |-> <<>>, descriptions_ |-> <<>>,
     severity_ |-> "UNKNOWN"]

\* InitSchema: schema_ becomes a fresh Schema initialised from the proto.
InitSchema(anomaly, proto) ==
    [ok |-> SchemaInit(proto).ok,
     anomaly |-> [anomaly EXCEPT !.schema_ = SchemaInit(proto).schema]]

set_path(anomaly, path) == [anomaly EXCEPT !.path_ = path]

is_problem(anomaly) ==
    anomaly.descriptions_ /= <<>> \/ anomaly.severity_ /= "UNKNOWN"

UpgradeSeverityOverwrite(anomaly, new_severity) ==
    [anomaly EXCEPT !.severity_ = new_severity]

UpgradeSeverity(anomaly, new_severity) ==
    [anomaly EXCEPT !.severity_ = MaxSeverity(anomaly.severity_, new_severity)]

ObserveMissingWarning(anomaly) ==
    LET pushed == [anomaly EXCEPT
                     !.descriptions_ = Append(@, MissingColumnDescription)]
        upgraded == UpgradeSeverity(pushed, "WARNING")
    IN  [upgraded EXCEPT
           !.schema_ = SchemaDeprecateFeature(@, anomaly.path_)]

ObserveMissing(anomaly) ==
    LET pushed == [anomaly EXCEPT
                     !.descriptions_ = Append(@, MissingColumnDescription)]
        upgraded == UpgradeSeverity(pushed, "ERROR")
    IN  [upgraded EXCEPT
           !.schema_ = SchemaDeprecateFeature(@, anomaly.path_)]

\* Update and CreateNewField return [ok, anomaly]: the Status and the
\* accumulator after the call.  res is the answer of schema_->Update.
UpdateAppendFirst(anomaly, path, res) ==
    LET appended == [anomaly EXCEPT
                       !.descriptions_ = @ \o res.descriptions,
                       !.schema_ = SchemaUpdate(@, path, res)]
    IN  IF ~res.ok THEN [ok |-> FALSE, anomaly |-> appended]
        ELSE [ok |-> TRUE,
              anomaly |-> UpgradeSeverity(appended, res.severity)]

Update(anomaly, path, res) ==
    LET called == [anomaly EXCEPT !.schema_ = SchemaUpdate(@, path, res)]
    IN  IF ~res.ok THEN [ok |-> FALSE, anomaly |-> called]
        ELSE [ok |-> TRUE,
              anomaly |->
                 [UpgradeSeverity(called, res.severity) EXCEPT
                    !.descriptions_ = @ \o res.descriptions]]

\* CreateNewField keeping only what this call returned.
CreateNewFieldReplace(anomaly, path, res) ==
    LET called == [anomaly EXCEPT
                     !.schema_ = SchemaUpdateRecursively(@, path, res)]
    IN  IF ~res.ok THEN [ok |-> FALSE, anomaly |-> called]
        ELSE [ok |-> TRUE,
              anomaly |->
                 [UpgradeSeverity(called, res.severity) EXCEPT
                    !.descriptions_ = res.descriptions]]

CreateNewField(anomaly, path, res) ==
    LET called == [anomaly EXCEPT
                     !.schema_ = SchemaUpdateRecursively(@, path, res)]
    IN  IF ~res.ok THEN [ok |-> FALSE, anomaly |-> called]
        ELSE [ok |-> TRUE,
              anomaly |->
                 [UpgradeSeverity(called, res.severity) EXCEPT
                    !.descriptions_ = @ \o res.descriptions]]

UpdateSkewComparatorNoUpgrade(anomaly, new_descriptions) ==
    [anomaly EXCEPT !.descriptions_ = @ \o new_descriptions]

UpdateSkewComparator(anomaly, new_descriptions) ==
    LET upgraded == IF new_descriptions /= <<>>
                    THEN UpgradeSeverity(anomaly, "ERROR")
                    ELSE anomaly
    IN  [upgraded EXCEPT !.descriptions_ = @ \o new_descriptions]

FeatureIsDeprecatedNever(anomaly, path) == FALSE

FeatureIsDeprecated(anomaly, path) ==
    IF anomaly.schema_.valid
    THEN SchemaFeatureIsDeprecated(anomaly.schema_, path)
    ELSE FALSE

GetAnomalyInfoCommonSeverityOfReasons(anomaly) ==
    LET filtered_descriptions == FilterDescriptions(anomaly.descriptions_)
        unified_description == UnifyDescriptions(filtered_descriptions)
    IN  [path |-> anomaly.path_,
         reason |-> filtered_descriptions,
         description |-> unified_description.long_description,
         short_description |-> unified_description.short_description,
         severity |-> IF filtered_descriptions = anomaly.descriptions_
                      THEN anomaly.severity_
                      ELSE "UNKNOWN"]

\* The AnomalyInfo proto of one accumulator.
GetAnomalyInfoCommon(anomaly) ==
    LET filtered_descriptions == FilterDescriptions(anomaly.descriptions_)
        unified_description == UnifyDescriptions(filtered_descriptions)
    IN  [path |-> anomaly.path_,
         reason |-> filtered_descriptions,
         description |-> unified_description.long_description,
         short_description |-> unified_description.short_description,
         severity |-> anomaly.severity_]

GetAnomalyInfo(anomaly, baseline) == GetAnomalyInfoCommon(anomaly)

SeqsUpTo(S, n) == UNION {[1..k -> S] : k \in 0..n}

NoAnomalyInfo ==
    [path |-> <<>>, reason |-> <<>>, description |-> "",
     short_description |-> "", severity |-> "UNKNOWN"]

(***************************************************************************)
(* SchemaAnomalies: the orchestrator.  anomalies_ is a function whose      *)
(* domain is the set of keys of the std::map.                              *)
(***************************************************************************)
EmptyMap == [p \in {} |-> NewSchemaAnomaly]

ContainsKey(anomalies, path) == path \in DOMAIN anomalies

\* One Schema object shared by all accumulators instead of a copy each.
PutSharedSchema(anomalies, path, value) ==
    [q \in DOMAIN anomalies \cup {path} |->
        IF q = path THEN value
        ELSE [anomalies[q] EXCEPT !.schema_ = value.schema_]]

\* anomalies_[path] = value
Put(anomalies, path, value) ==
    [q \in DOMAIN anomalies \cup {path} |->
        IF q = path THEN value ELSE anomalies[q]]

\* The three callbacks handed to GenericUpdate; res is the collaborator's
\* answer for the feature.  Each returns [ok, anomaly].
Mutation(op, res) == [op |-> op, res |-> res]

ApplyMutation(anomaly, path, update) ==
    CASE update.op = "Update" -> Update(anomaly, path, update.res)
      [] update.op = "ObserveMissing" ->
            [ok |-> TRUE, anomaly |-> ObserveMissing(anomaly)]
      [] update.op = "UpdateSkewComparator" ->
            [ok |-> TRUE,
             anomaly |-> UpdateSkewComparator(anomaly,
                                              update.res.descriptions)]

\* One entry of the call log: the operation, the feature, the collaborator's
\* answer, and the accumulator before and after the operation.
Event(op, path, res, before, after) ==
    [op |-> op, path |-> path, res |-> res, before |-> before,
     after |-> after]

Marker(op, path) ==
    Event(op, path, NoAnswer, NewSchemaAnomaly, NewSchemaAnomaly)

\* The(S) is the element of the singleton S.  The({e : x \in {v}}) is e
\* with x standing for the value of v, computed once.
The(S) == CHOOSE x \in S : TRUE

\* What GenericUpdate and the sweeps return: [ok, anomalies, events], the
\* Status, the map after the call and the operations invoked, in order.
Sweep(ok, anomalies, events) ==
    [ok |-> ok, anomalies |-> anomalies, events |-> events]

\* GenericUpdate without the is_problem test of line 263.
GenericUpdateAlwaysCommit(anomalies, proto, update, path) ==
    IF ContainsKey(anomalies, path)
    THEN The({Sweep(r.ok, Put(anomalies, path, r.anomaly),
                    <<Event(update.op, path, update.res,
                            anomalies[path], r.anomaly)>>) :
                 r \in {ApplyMutation(anomalies[path], path, update)}})
    ELSE The({
           IF ~init.ok THEN Sweep(FALSE, anomalies, <<>>)
           ELSE The({
                  The({IF ~r.ok
                       THEN Sweep(FALSE, anomalies,
                                  <<Event(update.op, path, update.res,
                                          schema_anomaly, r.anomaly)>>)
                       ELSE Sweep(TRUE, Put(anomalies, path, r.anomaly),
                                  <<Event(update.op, path, update.res,
                                          schema_anomaly, r.anomaly)>>) :
                         r \in {ApplyMutation(schema_anomaly, path, update)}}) :
                     schema_anomaly \in {set_path(init.anomaly, path)}}) :
              init \in {InitSchema(NewSchemaAnomaly, proto)}})

\* GenericUpdate committing before it looks at the callback's Status.
GenericUpdateCommitOnError(anomalies, proto, update, path) ==
    IF ContainsKey(anomalies, path)
    THEN The({Sweep(r.ok, Put(anomalies, path, r.anomaly),
                    <<Event(update.op, path, update.res,
                            anomalies[path], r.anomaly)>>) :
                 r \in {ApplyMutation(anomalies[path], path, update)}})
    ELSE The({
           IF ~init.ok THEN Sweep(FALSE, anomalies, <<>>)
           ELSE The({
                  The({Sweep(r.ok, Put(anomalies, path, r.anomaly),
                             <<Event(update.op, path, update.res,
                                     schema_anomaly, r.anomaly)>>) :
                         r \in {ApplyMutation(schema_anomaly, path, update)}}) :
                     schema_anomaly \in {set_path(init.anomaly, path)}}) :
              init \in {InitSchema(NewSchemaAnomaly, proto)}})

\* GenericUpdate erasing the entry of a path whose callback failed.
GenericUpdateEraseOnError(anomalies, proto, update, path) ==
    IF ContainsKey(anomalies, path)
    THEN The({IF r.ok
              THEN Sweep(TRUE, Put(anomalies, path, r.anomaly),
                         <<Event(update.op, path, update.res,
                                 anomalies[path], r.anomaly)>>)
              ELSE Sweep(FALSE,
                         [q \in DOMAIN anomalies \ {path} |-> anomalies[q]],
                         <<Event(update.op, path, update.res,
                                 anomalies[path], r.anomaly)>>) :
                 r \in {ApplyMutation(anomalies[path], path, update)}})
    ELSE The({
           IF ~init.ok THEN Sweep(FALSE, anomalies, <<>>)
           ELSE The({
                  The({IF ~r.ok
                       THEN Sweep(FALSE, anomalies,
                                  <<Event(update.op, path, update.res,
                                          schema_anomaly, r.anomaly)>>)
                       ELSE IF is_problem(r.anomaly)
                       THEN Sweep(TRUE, Put(anomalies, path, r.anomaly),
                                  <<Event(update.op, path, update.res,
                                          schema_anomaly, r.anomaly)>>)
                       ELSE Sweep(TRUE, anomalies,
                                  <<Event(update.op, path, update.res,
                                          schema_anomaly, r.anomaly)>>) :
                         r \in {ApplyMutation(schema_anomaly, path, update)}}) :
                     schema_anomaly \in {set_path(init.anomaly, path)}}) :
              init \in {InitSchema(NewSchemaAnomaly, proto)}})

GenericUpdate(anomalies, proto, update, path) ==
    IF ContainsKey(anomalies, path)
    THEN The({Sweep(r.ok, Put(anomalies, path, r.anomaly),
                    <<Event(update.op, path, update.res,
                            anomalies[path], r.anomaly)>>) :
                 r \in {ApplyMutation(anomalies[path], path, update)}})
    ELSE The({
           IF ~init.ok THEN Sweep(FALSE, anomalies, <<>>)
           ELSE The({
                  The({IF ~r.ok
                       THEN Sweep(FALSE, anomalies,
                                  <<Event(update.op, path, update.res,
                                          schema_anomaly, r.anomaly)>>)
                       ELSE IF is_problem(r.anomaly)
                       THEN Sweep(TRUE, Put(anomalies, path, r.anomaly),
                                  <<Event(update.op, path, update.res,
                                          schema_anomaly, r.anomaly)>>)
                       ELSE Sweep(TRUE, anomalies,
                                  <<Event(update.op, path, update.res,
                                          schema_anomaly, r.anomaly)>>) :
                         r \in {ApplyMutation(schema_anomaly, path, update)}}) :
                     schema_anomaly \in {set_path(init.anomaly, path)}}) :
              init \in {InitSchema(NewSchemaAnomaly, proto)}})

\* A sweep continued by a step: the step's events follow the sweep's.
Then(sweep, step) ==
    Sweep(step.ok, step.anomalies, sweep.events \o step.events)

\* absl::optional<std::set<Path>>
NoFeaturesNeeded == [present |-> FALSE, paths |-> {}]

ShouldCreateFeatureAlways(needed, path) == TRUE

ShouldCreateFeature(needed, path) ==
    ~needed.present \/ path \in needed.paths

\* FeatureStatsView::GetChildren, DatasetStatsView::GetRootFeatures: the
\* statistics are the sequence of feature paths of the dataset.
GetChildren(stats, path) ==
    SelectSeq(stats, LAMBDA q : Len(q) = Len(path) + 1 /\ Parent(q) = path)

GetRootFeatures(stats) == SelectSeq(stats, IsRoot)

\* The creation branch without the ContainsKey test of line 297.
CreateInMapAlwaysFresh(anomalies, proto, path, res) ==
    The({
      IF ~init.ok
      THEN Sweep(FALSE, anomalies, <<>>)
      ELSE The({
             The({Sweep(c.ok, Put(ensured, path, c.anomaly),
                        <<Event("CreateNewField", path, res,
                                ensured[path], c.anomaly)>>) :
                    c \in {CreateNewField(ensured[path], path, res)}}) :
                ensured \in {Put(anomalies, path,
                                 set_path(init.anomaly, path))}}) :
         init \in {InitSchema(NewSchemaAnomaly, proto)}})

\* Lines 297-306: the accumulator is inserted into the map if the path has
\* none, then CreateNewField is called on the map's entry.
CreateInMap(anomalies, proto, path, res) ==
    The({
      IF ~ContainsKey(anomalies, path) /\ ~init.ok
      THEN Sweep(FALSE, anomalies, <<>>)
      ELSE The({
             The({Sweep(c.ok, Put(ensured, path, c.anomaly),
                        <<Event("CreateNewField", path, res,
                                ensured[path], c.anomaly)>>) :
                    c \in {CreateNewField(ensured[path], path, res)}}) :
                ensured \in {IF ~ContainsKey(anomalies, path)
                             THEN Put(anomalies, path,
                                      set_path(init.anomaly, path))
                             ELSE anomalies}}) :
         init \in {InitSchema(NewSchemaAnomaly, proto)}})

\* Line 277: the test that ends the walk at a deprecated feature.
BaselineDeprecatedNever(baseline, path) == FALSE

BaselineDeprecated(baseline, path) == SchemaFeatureIsDeprecated(baseline, path)

RECURSIVE FindChangesRecursively(_, _, _, _, _, _)
RECURSIVE FindChangesEach(_, _, _, _, _, _)

\* The loops without TF_RETURN_IF_ERROR: the walk goes on after an error.
FindChangesEachKeepGoing(sweep, proto, stats, nodes, needed, ev) ==
    IF nodes = <<>> THEN sweep
    ELSE FindChangesEach(
            FindChangesRecursively(sweep, proto, stats, Head(nodes), needed, ev),
            proto, stats, Tail(nodes), needed, ev)

\* The loops over root features and over children: stop at the first error.
FindChangesEach(sweep, proto, stats, nodes, needed, ev) ==
    IF nodes = <<>> \/ ~sweep.ok THEN sweep
    ELSE FindChangesEach(
            FindChangesRecursively(sweep, proto, stats, Head(nodes), needed, ev),
            proto, stats, Tail(nodes), needed, ev)

\* sweep is the state the call starts in; the result is the state it ends in.
FindChangesRecursively(sweep, proto, stats, path, needed, ev) ==
    The({
      IF ~baseline.ok THEN Sweep(FALSE, entered.anomalies, entered.events)
      ELSE IF SchemaFeatureExists(baseline.schema, path)
      THEN IF BaselineDeprecated(baseline.schema, path)
           THEN entered
           ELSE The({
                  IF ~updated.ok THEN updated
                  ELSE IF /\ ContainsKey(updated.anomalies, path)
                          /\ FeatureIsDeprecated(updated.anomalies[path], path)
                  THEN updated
                  ELSE FindChangesEach(updated, proto, stats,
                                       GetChildren(stats, path), needed, ev) :
                     updated \in {Then(entered,
                                       GenericUpdate(entered.anomalies, proto,
                                                     Mutation("Update", ev[path]),
                                                     path))}})
      ELSE IF ShouldCreateFeature(needed, path)
      THEN Then(entered, CreateInMap(entered.anomalies, proto, path, ev[path]))
      ELSE entered :
         baseline \in {SchemaInit(proto)},
         entered \in {Sweep(TRUE, sweep.anomalies,
                            Append(sweep.events, Marker("Visit", path)))}})

\* The loop of lines 332-339.
RECURSIVE ObserveMissingEach(_, _, _)
ObserveMissingEach(sweep, proto, paths) ==
    IF paths = <<>> \/ ~sweep.ok THEN sweep
    ELSE ObserveMissingEach(
            Then(sweep, GenericUpdate(sweep.anomalies, proto,
                                      Mutation("ObserveMissing", NoAnswer),
                                      Head(paths))),
            proto, Tail(paths))

LogRequiredMissingNothing(needed, stats, baseline) == <<>>

\* The loop of lines 340-348: one LOG(ERROR) per required feature that is in
\* neither the statistics nor the schema.
LogRequiredMissing(needed, stats, baseline) ==
    The({[i \in 1..Len(absent) |-> Marker("LogError", absent[i])] :
           absent \in {SelectSeq(PathOrder,
                                 LAMBDA p : /\ needed.present
                                            /\ p \in needed.paths
                                            /\ ~InStats(stats, p)
                                            /\ ~SchemaFeatureExists(baseline, p))}})

FindChangesResult(anomalies, proto, stats, needed, ev) ==
    The({
      IF ~walked.ok THEN walked
      ELSE IF ~baseline.ok
      THEN Sweep(FALSE, walked.anomalies, walked.events)
      ELSE The({
             IF ~swept.ok THEN swept
             ELSE Sweep(TRUE, swept.anomalies,
                        swept.events
                           \o LogRequiredMissing(needed, stats, baseline.schema)) :
                swept \in {ObserveMissingEach(
                              walked, proto,
                              SchemaGetMissingPaths(baseline.schema, stats))}}) :
         walked \in {FindChangesEach(Sweep(TRUE, anomalies, <<>>), proto, stats,
                                     GetRootFeatures(stats), needed, ev)},
         baseline \in {SchemaInit(proto)}})

\* The loop of FindSkew; TF_CHECK_OK ends the process at the first error.
RECURSIVE FindSkewEach(_, _, _, _)
FindSkewEach(sweep, proto, nodes, sk) ==
    IF nodes = <<>> \/ ~sweep.ok THEN sweep
    ELSE FindSkewEach(
            Then(sweep, GenericUpdate(sweep.anomalies, proto,
                                      Mutation("UpdateSkewComparator",
                                               SkewAnswer(sk[Head(nodes)])),
                                      Head(nodes))),
            proto, Tail(nodes), sk)

FindSkewResult(anomalies, proto, stats, sk) ==
    FindSkewEach(Sweep(TRUE, anomalies, <<>>), proto, stats, sk)

\* The anomaly_info map of the Anomalies proto.
GetSchemaDiffResult(anomalies, proto) ==
    [p \in DOMAIN anomalies |-> GetAnomalyInfo(anomalies[p], proto)]

(***************************************************************************)
(* Spec: one validation run.  A SchemaAnomalies object is constructed from *)
(* a baseline; the run has one dataset (statistics) and one optional set   *)
(* of required features; at most MaxCalls calls of FindChanges and         *)
(* FindSkew are made on them, the collaborators answering anew at each     *)
(* call, and GetSchemaDiff is called at any time.                          *)
(***************************************************************************)
\* The baselines of the model: every feature active; a deprecated struct
\* with an active child; features a and b, a having no child; no struct
\* and a deprecated b; and a malformed baseline, on which Schema::Init
\* fails.
Baseline(a, ac, b) ==
    [valid |-> TRUE,
     feat |-> [p \in Paths |->
                 CASE p = <<"a">> -> a
                   [] p = <<"a", "c">> -> ac
                   [] p = <<"b">> -> b]]

MalformedBaseline == [valid |-> FALSE, feat |-> NoFeatures]

Baselines ==
    {Baseline("active", "active", "active"),
     Baseline("deprecated", "active", "active"),
     Baseline("active", "absent", "active"),
     Baseline("absent", "absent", "deprecated"),
     MalformedBaseline}

\* Statistics: the features of the dataset in path order, a child only
\* with its parent.
StatsChoices ==
    {st \in SeqsUpTo(Paths, Cardinality(Paths)) :
        /\ \E keep \in SUBSET Paths :
              st = SelectSeq(PathOrder, LAMBDA p : p \in keep)
        /\ \A i \in 1..Len(st) : ~IsRoot(st[i]) => InStats(st, Parent(st[i]))}

\* Required features: not given, none, the flat feature, the struct.
NeededChoices ==
    {NoFeaturesNeeded}
    \cup {[present |-> TRUE, paths |-> ps] :
             ps \in {{}, {<<"b">>}, {<<"a">>, <<"a", "c">>}}}

\* The evaluator's answers: for a feature with statistics that is active in
\* the baseline an answer of Schema::Update, for one that is absent from the
\* baseline an answer of Schema::UpdateRecursively; it is not consulted on
\* the others.
AnswersFor(proto, stats, p) ==
    IF InStats(stats, p) /\ proto.feat[p] = "active" THEN UpdateResults
    ELSE IF InStats(stats, p) /\ proto.feat[p] = "absent" THEN CreateResults
    ELSE {NoAnswer}

Evaluators(proto, stats) ==
    {[p \in Paths |-> CASE p = <<"a">> -> ra
                        [] p = <<"a", "c">> -> rac
                        [] p = <<"b">> -> rb] :
        ra \in AnswersFor(proto, stats, <<"a">>),
        rac \in AnswersFor(proto, stats, <<"a", "c">>),
        rb \in AnswersFor(proto, stats, <<"b">>)}

SkewComparators(stats) ==
    {sk \in [Paths -> SkewResults] :
        \A p \in Paths : ~InStats(stats, p) => sk[p] = <<>>}

\* The record of a call: its name, its Status ("OK", "ERROR", or "FATAL"
\* when TF_CHECK_OK ended the process), the map before it, its call log and,
\* for GetSchemaDiff, the report.
Call(op, status, before, log, report) ==
    [op |-> op, status |-> status, before |-> before, log |-> log,
     report |-> report]

NoReport == [p \in {} |-> NoAnomalyInfo]

NoCall == Call("none", "OK", EmptyMap, <<>>, NoReport)

OrchIdle ==
    /\ serialized_baseline_ = NullSchema
    /\ anomalies_ = EmptyMap
    /\ statistics = <<>>
    /\ features_needed = NoFeaturesNeeded
    /\ ncalls = 0
    /\ last = NoCall

AccIdle == acc = NewSchemaAnomaly /\ hist = <<>>

RenderIdle == rin = NewSchemaAnomaly /\ rout = [done |-> FALSE, info |-> NoAnomalyInfo]

Terminated == last.status = "FATAL"

Init ==
    /\ serialized_baseline_ \in Baselines
    /\ anomalies_ = EmptyMap
    /\ statistics \in StatsChoices
    /\ features_needed \in NeededChoices
    /\ ncalls = 0
    /\ last = NoCall
    /\ AccIdle
    /\ RenderIdle

FindChanges ==
    /\ ~Terminated
    /\ ncalls < MaxCalls
    /\ \E ev \in Evaluators(serialized_baseline_, statistics) :
          \E r \in {FindChangesResult(anomalies_, serialized_baseline_,
                                      statistics, features_needed, ev)} :
              /\ anomalies_' = r.anomalies
              /\ last' = Call("FindChanges", IF r.ok THEN "OK" ELSE "ERROR",
                              anomalies_, r.events, NoReport)
    /\ ncalls' = ncalls + 1
    /\ UNCHANGED <<serialized_baseline_, statistics, features_needed,
                   accVars, renderVars>>

FindSkew ==
    /\ ~Terminated
    /\ ncalls < MaxCalls
    /\ \E sk \in SkewComparators(statistics) :
          \E r \in {FindSkewResult(anomalies_, serialized_baseline_,
                                   statistics, sk)} :
              /\ anomalies_' = r.anomalies
              /\ last' = Call("FindSkew", IF r.ok THEN "OK" ELSE "FATAL",
                              anomalies_, r.events, NoReport)
    /\ ncalls' = ncalls + 1
    /\ UNCHANGED <<serialized_baseline_, statistics, features_needed,
                   accVars, renderVars>>

GetSchemaDiff ==
    /\ ~Terminated
    /\ last' = Call("GetSchemaDiff", "OK", anomalies_, <<>>,
                    GetSchemaDiffResult(anomalies_, serialized_baseline_))
    /\ UNCHANGED <<serialized_baseline_, anomalies_, statistics,
                   features_needed, ncalls, accVars, renderVars>>

Next ==
    \/ FindChanges
    \/ FindSkew
    \/ GetSchemaDiff

Spec == Init /\ [][Next]_vars

(***************************************************************************)
(* SpecGenericUpdate: at most MaxCalls calls of GenericUpdate, each with a *)
(* path and a callback the sweeps can hand to it: Update or ObserveMissing *)
(* for a feature that is active in the baseline, UpdateSkewComparator for  *)
(* any feature.                                                            *)
(***************************************************************************)
UpdatesFor(proto, path) ==
    {Mutation("UpdateSkewComparator", SkewAnswer(ds)) : ds \in SkewResults}
    \cup (IF proto.feat[path] = "active"
          THEN {Mutation("Update", res) : res \in UpdateResults}
               \cup {Mutation("ObserveMissing", NoAnswer)}
          ELSE {})

InitGenericUpdate ==
    /\ serialized_baseline_ \in Baselines
    /\ anomalies_ = EmptyMap
    /\ statistics = <<>>
    /\ features_needed = NoFeaturesNeeded
    /\ ncalls = 0
    /\ last = NoCall
    /\ AccIdle
    /\ RenderIdle

GenericUpdateCall ==
    /\ ncalls < MaxCalls
    /\ \E path \in Paths :
          \E update \in UpdatesFor(serialized_baseline_, path) :
             \E r \in {GenericUpdate(anomalies_, serialized_baseline_,
                                     update, path)} :
                /\ anomalies_' = r.anomalies
                /\ last' = Call("GenericUpdate",
                                IF r.ok THEN "OK" ELSE "ERROR",
                                anomalies_,
                                <<Marker("Call", path)>> \o r.events,
                                NoReport)
    /\ ncalls' = ncalls + 1
    /\ UNCHANGED <<serialized_baseline_, statistics, features_needed,
                   accVars, renderVars>>

NextGenericUpdate == GenericUpdateCall

SpecGenericUpdate == InitGenericUpdate /\ [][NextGenericUpdate]_vars

(***************************************************************************)
(* SpecRender: GetAnomalyInfoCommon on every accumulator whose description *)
(* list has at most MaxLen entries drawn from RenderDescriptions.          *)
(***************************************************************************)
RenderDescriptions ==
    {Description("SCHEMA_NEW_COLUMN", "New column", "X"),
     Description("SCHEMA_NEW_COLUMN", "New column", "Z"),
     Description("SCHEMA_NEW_COLUMN", "New column", ""),
     Description("SCHEMA_MISSING_COLUMN", kColumnDropped, "Y"),
     Description("FLOAT_TYPE_BIG_FLOAT", "Unexpectedly large value", "")}

InitRender ==
    /\ OrchIdle
    /\ AccIdle
    /\ \E ds \in SeqsUpTo(RenderDescriptions, MaxLen), sev \in Severity,
          path \in Paths :
          rin = [schema_ |-> NullSchema, path_ |-> path,
                 descriptions_ |-> ds, severity_ |-> sev]
    /\ rout = [done |-> FALSE, info |-> NoAnomalyInfo]

Render ==
    /\ ~rout.done
    /\ rout' = [done |-> TRUE, info |-> GetAnomalyInfoCommon(rin)]
    /\ UNCHANGED <<rin, orchVars, accVars>>

NextRender == Render

SpecRender == InitRender /\ [][NextRender]_vars

(***************************************************************************)
(* SpecAcc: one SchemaAnomaly, seeded from a baseline, under at most       *)
(* MaxOps mutating operations.  hist records, per operation, its name, the *)
(* collaborator's answer and the accumulator before and after it.          *)
(***************************************************************************)
AccPath == <<"a">>

AccBaselines ==
    {[valid |-> TRUE, feat |-> [NoFeatures EXCEPT ![AccPath] = st]] :
        st \in {"absent", "active"}}

HistEntry(op, res, before, after) ==
    [op |-> op, res |-> res, before |-> before, after |-> after]

InitAcc ==
    /\ OrchIdle
    /\ RenderIdle
    /\ \E proto \in AccBaselines :
          acc = set_path(InitSchema(NewSchemaAnomaly, proto).anomaly, AccPath)
    /\ hist = <<>>

AccUpdate ==
    /\ Len(hist) < MaxOps
    /\ \E res \in UpdateResults :
          /\ acc' = Update(acc, AccPath, res).anomaly
          /\ hist' = Append(hist, HistEntry("Update", res, acc, acc'))
    /\ UNCHANGED <<orchVars, renderVars>>

AccCreateNewField ==
    /\ Len(hist) < MaxOps
    /\ \E res \in CreateResults :
          /\ acc' = CreateNewField(acc, AccPath, res).anomaly
          /\ hist' = Append(hist, HistEntry("CreateNewField", res, acc, acc'))
    /\ UNCHANGED <<orchVars, renderVars>>

AccObserveMissing ==
    /\ Len(hist) < MaxOps
    /\ acc' = ObserveMissing(acc)
    /\ hist' = Append(hist, HistEntry("ObserveMissing", NoAnswer, acc, acc'))
    /\ UNCHANGED <<orchVars, renderVars>>

AccUpdateSkewComparator ==
    /\ Len(hist) < MaxOps
    /\ \E new_descriptions \in SkewResults :
          /\ acc' = UpdateSkewComparator(acc, new_descriptions)
          /\ hist' = Append(hist, HistEntry("UpdateSkewComparator",
                                            SkewAnswer(new_descriptions),
                                            acc, acc'))
    /\ UNCHANGED <<orchVars, renderVars>>

NextAcc ==
    \/ AccUpdate
    \/ AccCreateNewField
    \/ AccObserveMissing
    \/ AccUpdateSkewComparator

SpecAcc == InitAcc /\ [][NextAcc]_vars

(***************************************************************************)
(* Properties.                                                             *)
(***************************************************************************)
AtLeast(a, b) == NumericalSeverity(a) >= NumericalSeverity(b)

\* The greatest element of a non-empty set of severities.
Greatest(S) == CHOOSE s \in S : \A t \in S : AtLeast(s, t)

\* The severity an operation of hist contributes.
OpSeverity(h) ==
    CASE h.op = "Update" -> IF h.res.ok THEN h.res.severity ELSE "UNKNOWN"
      [] h.op = "CreateNewField" ->
            IF h.res.ok THEN h.res.severity ELSE "UNKNOWN"
      [] h.op = "ObserveMissing" -> "ERROR"
      [] h.op = "UpdateSkewComparator" ->
            IF h.res.descriptions /= <<>> THEN "ERROR" ELSE "UNKNOWN"

ApplyOp(anomaly, h) ==
    CASE h.op = "Update" -> Update(anomaly, AccPath, h.res).anomaly
      [] h.op = "CreateNewField" ->
            CreateNewField(anomaly, AccPath, h.res).anomaly
      [] h.op = "ObserveMissing" -> ObserveMissing(anomaly)
      [] h.op = "UpdateSkewComparator" ->
            UpdateSkewComparator(anomaly, h.res.descriptions)

RECURSIVE Replay(_, _)
Replay(ops, anomaly) ==
    IF ops = <<>> THEN anomaly
    ELSE Replay(Tail(ops), ApplyOp(anomaly, Head(ops)))

IndexPermutations(n) ==
    {f \in [1..n -> 1..n] : \A i, j \in 1..n : f[i] = f[j] => i = j}

\* The merge UpgradeSeverity applies, as a function of two severities.
Merge(a, b) ==
    UpgradeSeverity([NewSchemaAnomaly EXCEPT !.severity_ = a], b).severity_

\* C2: after any sequence of mutating operations the accumulator's severity
\* is the greatest of UNKNOWN and the severities the operations contributed,
\* every permutation of the sequence ends with the same severity, and the
\* merge is commutative, associative and idempotent.
C2_SeverityIsOrderIndependentMax ==
    LET n == Len(hist)
        start == IF hist = <<>> THEN acc ELSE hist[1].before
    IN  /\ start.severity_ = "UNKNOWN"
        /\ acc.severity_ =
              Greatest({"UNKNOWN"} \cup {OpSeverity(hist[i]) : i \in 1..n})
        /\ \A f \in IndexPermutations(n) :
              Replay([i \in 1..n |-> hist[f[i]]], start).severity_
                 = acc.severity_
        /\ \A a, b, c \in Severity :
              /\ Merge(a, b) = Merge(b, a)
              /\ Merge(Merge(a, b), c) = Merge(a, Merge(b, c))
              /\ Merge(a, a) = a

\* Three operations whose severities are ERROR, UNKNOWN and WARNING in that
\* order have been applied, and the accumulator reads ERROR.
C2_Witness ==
    /\ Len(hist) = 3
    /\ OpSeverity(hist[1]) = "ERROR"
    /\ OpSeverity(hist[2]) = "UNKNOWN"
    /\ OpSeverity(hist[3]) = "WARNING"
    /\ acc.severity_ = "ERROR"

\* C3: no mutating operation, successful or failed, lowers the severity of
\* the accumulator.
C3_SeverityNeverDecreases ==
    \A i \in 1..Len(hist) :
        AtLeast(hist[i].after.severity_, hist[i].before.severity_)

\* An operation contributing WARNING and a failed update were each applied to
\* an accumulator already at ERROR.
C3_Witness ==
    /\ \E i \in 1..Len(hist) :
          /\ hist[i].before.severity_ = "ERROR"
          /\ OpSeverity(hist[i]) = "WARNING"
          /\ hist[i].after.severity_ = "ERROR"
    /\ \E i \in 1..Len(hist) :
          /\ hist[i].before.severity_ = "ERROR"
          /\ ~hist[i].res.ok
          /\ hist[i].after.severity_ = "ERROR"

\* C4: the rendered reasons are the single first description when the list
\* is non-empty and all of kind SCHEMA_NEW_COLUMN, and the whole list, in
\* order and unchanged, in every other case.
C4_ReasonsAreFilteredList ==
    rout.done =>
       LET ds == rin.descriptions_
           allNew == \A i \in 1..Len(ds) : ds[i].type = "SCHEMA_NEW_COLUMN"
       IN  /\ (Len(ds) > 0 /\ allNew) =>
                 /\ Len(rout.info.reason) = 1
                 /\ rout.info.reason[1] = ds[1]
           /\ (Len(ds) = 0 \/ ~allNew) => rout.info.reason = ds

\* Three SCHEMA_NEW_COLUMN descriptions, not all alike, were rendered as the
\* single reason that is the first of them.
C4_Witness ==
    /\ rout.done
    /\ Len(rin.descriptions_) = 3
    /\ \A i \in 1..3 : rin.descriptions_[i].type = "SCHEMA_NEW_COLUMN"
    /\ rin.descriptions_[1] /= rin.descriptions_[2]
    /\ rout.info.reason = <<rin.descriptions_[1]>>

\* The long texts of a description list that are not empty, joined by
\* single spaces.
NonEmptyLongTexts(ds) ==
    SelectSeq([i \in 1..Len(ds) |-> ds[i].long_description],
              LAMBDA t : t /= "")

RECURSIVE JoinWithSpaces(_)
JoinWithSpaces(texts) ==
    IF texts = <<>> THEN ""
    ELSE IF Len(texts) = 1 THEN texts[1]
    ELSE JoinWithSpaces(SubSeq(texts, 1, Len(texts) - 1))
            \o " " \o texts[Len(texts)]

\* C5: the rendered long text is the non-empty long texts of the rendered
\* reasons joined by single spaces in order; with two or more of them the
\* short text is "Multiple errors", with exactly one the short and long text
\* are that description's; a SCHEMA_NEW_COLUMN "X" followed by a
\* SCHEMA_MISSING_COLUMN "Y" renders 2 reasons, "Multiple errors", "X Y".
C5_UnifyJoinsLongTexts ==
    rout.done =>
       LET filtered == rout.info.reason
           texts == NonEmptyLongTexts(filtered)
       IN  /\ rout.info.description = JoinWithSpaces(texts)
           /\ Len(texts) >= 2 => rout.info.short_description = "Multiple errors"
           /\ Len(texts) = 1 =>
                 \E i \in 1..Len(filtered) :
                    /\ filtered[i].long_description /= ""
                    /\ rout.info.short_description
                          = filtered[i].short_description
                    /\ rout.info.description = filtered[i].long_description
           /\ rin.descriptions_ =
                 <<Description("SCHEMA_NEW_COLUMN", "New column", "X"),
                   Description("SCHEMA_MISSING_COLUMN", kColumnDropped, "Y")>>
              => /\ Len(rout.info.reason) = 2
                 /\ rout.info.short_description = "Multiple errors"
                 /\ rout.info.description = "X Y"

\* The list <<NEW_COLUMN "X", MISSING_COLUMN "Y">> has been rendered.
C5_Witness ==
    /\ rout.done
    /\ rin.descriptions_ =
          <<Description("SCHEMA_NEW_COLUMN", "New column", "X"),
            Description("SCHEMA_MISSING_COLUMN", kColumnDropped, "Y")>>
    /\ rout.info.description = "X Y"

\* C6: a skew update whose comparator returned descriptions leaves the
\* severity at ERROR whatever it was and appends the descriptions; one
\* whose comparator returned none changes neither severity nor descriptions.
C6_SkewEscalatesToError ==
    \A i \in 1..Len(hist) :
        hist[i].op = "UpdateSkewComparator" =>
           IF hist[i].res.descriptions /= <<>>
           THEN /\ hist[i].after.severity_ = "ERROR"
                /\ hist[i].after.descriptions_ =
                      hist[i].before.descriptions_ \o hist[i].res.descriptions
           ELSE /\ hist[i].after.severity_ = hist[i].before.severity_
                /\ hist[i].after.descriptions_ = hist[i].before.descriptions_

\* Skew was found on an accumulator at UNKNOWN and on one at WARNING, and
\* a comparator answer without descriptions left a WARNING accumulator as is.
C6_Witness ==
    /\ \E i \in 1..Len(hist) :
          /\ hist[i].op = "UpdateSkewComparator"
          /\ hist[i].res.descriptions /= <<>>
          /\ hist[i].before.severity_ = "WARNING"
          /\ hist[i].after.severity_ = "ERROR"
    /\ \E i \in 1..Len(hist) :
          /\ hist[i].op = "UpdateSkewComparator"
          /\ hist[i].res.descriptions = <<>>
          /\ hist[i].before.severity_ = "WARNING"

AfterFindChanges == last.op = "FindChanges" /\ serialized_baseline_.valid

Log == last.log

Mutations == {"Update", "CreateNewField", "ObserveMissing",
              "UpdateSkewComparator"}

IsProperPrefix(p, q) == Len(p) < Len(q) /\ SubSeq(q, 1, Len(p)) = p

IsPrefix(p, q) == Len(p) <= Len(q) /\ SubSeq(q, 1, Len(p)) = p

\* The entry of path p is the same in maps m and n: absent in both, or the
\* same accumulator in both.
SameEntry(m, n, p) ==
    /\ (p \in DOMAIN m) = (p \in DOMAIN n)
    /\ p \in DOMAIN m => m[p] = n[p]

\* C1: every accumulator stored in the map is a problem, whatever calls were
\* made and whether or not they failed, and no entry of a rendered report
\* has zero reasons and severity UNKNOWN.
C1_EveryEntryIsProblem ==
    /\ \A p \in DOMAIN anomalies_ : is_problem(anomalies_[p])
    /\ last.op = "GetSchemaDiff" =>
          \A p \in DOMAIN last.report :
             ~(last.report[p].reason = <<>>
               /\ last.report[p].severity = "UNKNOWN")

\* C7: FindChanges invokes neither Update nor CreateNewField for a feature
\* that is deprecated in the baseline, visits none of its descendants,
\* returns success for it, never applies ObserveMissing to it, and leaves
\* its map entry as it was.
C7_DeprecatedIsShielded ==
    AfterFindChanges =>
       \A p \in Paths :
          serialized_baseline_.feat[p] = "deprecated" =>
             /\ \A i \in 1..Len(Log) :
                   /\ ~(Log[i].path = p /\ Log[i].op \in Mutations)
                   /\ ~(IsProperPrefix(p, Log[i].path)
                        /\ Log[i].op \in {"Visit", "Update", "CreateNewField"})
             /\ (Log /= <<>> /\ Log[Len(Log)].path = p) => last.status = "OK"
             /\ SameEntry(last.before, anomalies_, p)

\* The deprecated struct and its child both have statistics; the walk
\* entered the struct, went on to the next root and the call returned OK.
C7_Witness ==
    /\ AfterFindChanges
    /\ serialized_baseline_.feat[<<"a">>] = "deprecated"
    /\ statistics = PathOrder
    /\ last.status = "OK"
    /\ Len(Log) >= 3
    /\ Log[1].op = "Visit" /\ Log[1].path = <<"a">>
    /\ Log[2].op = "Visit" /\ Log[2].path = <<"b">>
    /\ Log[3].op = "Update" /\ Log[3].path = <<"b">>

\* The answer of the evaluator that finds nothing.
FoundNothing(res) ==
    res.ok /\ res.descriptions = <<>> /\ res.severity = "UNKNOWN"

MissingPaths ==
    {p \in Paths : /\ serialized_baseline_.feat[p] /= "absent"
                   /\ serialized_baseline_.feat[p] /= "deprecated"
                   /\ ~InStats(statistics, p)}

\* C8: after a successful FindChanges on an empty map in which the evaluator
\* found nothing for every feature it was consulted on, the keys are exactly
\* the non-deprecated baseline paths without statistics, each with severity
\* ERROR, the single description {SCHEMA_MISSING_COLUMN, "Column dropped",
\* "Column is completely missing"} and the path deprecated in its own schema.
C8_MissingSweep ==
    (/\ AfterFindChanges
     /\ last.status = "OK"
     /\ last.before = EmptyMap
     /\ \A i \in 1..Len(Log) :
           Log[i].op \in {"Update", "CreateNewField"} => FoundNothing(Log[i].res))
    => /\ DOMAIN anomalies_ = MissingPaths
       /\ \A p \in DOMAIN anomalies_ :
             /\ anomalies_[p].severity_ = "ERROR"
             /\ anomalies_[p].descriptions_ =
                   <<[type |-> "SCHEMA_MISSING_COLUMN",
                      short_description |-> "Column dropped",
                      long_description |-> "Column is completely missing"]>>
             /\ anomalies_[p].schema_.feat[p] = "deprecated"
             /\ anomalies_[p].path_ = p

\* Baseline {a, b}, statistics for a only, the evaluator finds nothing on a:
\* the map holds exactly the entry of b.
C8_Witness ==
    /\ AfterFindChanges
    /\ last.status = "OK"
    /\ last.before = EmptyMap
    /\ serialized_baseline_ = Baseline("active", "absent", "active")
    /\ statistics = <<(<<"a">>)>>
    /\ \E i \in 1..Len(Log) :
          Log[i].op = "Update" /\ Log[i].path = <<"a">> /\ FoundNothing(Log[i].res)
    /\ DOMAIN anomalies_ = {<<"b">>}
    /\ anomalies_[<<"b">>].severity_ = "ERROR"

\* C9: with required paths given, FindChanges invokes nothing on a feature
\* that has statistics, is absent from the baseline and is not required,
\* and its map entry is as before; with no required paths given, every such
\* feature the walk reaches gets CreateNewField invoked.
C9_RestrictedCreation ==
    AfterFindChanges =>
       \A p \in Paths :
          (InStats(statistics, p) /\ serialized_baseline_.feat[p] = "absent") =>
             /\ (features_needed.present /\ p \notin features_needed.paths) =>
                   /\ \A i \in 1..Len(Log) :
                         ~(Log[i].path = p /\ Log[i].op \in Mutations)
                   /\ SameEntry(last.before, anomalies_, p)
             /\ ~features_needed.present =>
                   \A i \in 1..Len(Log) :
                      (Log[i].op = "Visit" /\ Log[i].path = p) =>
                         /\ i < Len(Log)
                         /\ Log[i + 1].op = "CreateNewField"
                         /\ Log[i + 1].path = p

\* The walk reached a feature that is new and not required, whose
\* accumulator an earlier call had committed: the entry is untouched.
C9_Witness ==
    /\ AfterFindChanges
    /\ features_needed.present
    /\ \E p \in Paths :
          /\ InStats(statistics, p)
          /\ serialized_baseline_.feat[p] = "absent"
          /\ p \notin features_needed.paths
          /\ \E i \in 1..Len(Log) : Log[i].op = "Visit" /\ Log[i].path = p
          /\ p \in DOMAIN last.before
          /\ p \in DOMAIN anomalies_

\* C11: GetSchemaDiff changes neither the map (keys, accumulators'
\* descriptions, severity, path, private schema) nor the baseline; its report
\* has one entry per key, a second call right after the first returns the
\* same report, and every entry's severity is the accumulator's severity,
\* whether or not the reasons were collapsed.
C11_RenderIsPureRead ==
    [][last'.op = "GetSchemaDiff" =>
          /\ anomalies_' = anomalies_
          /\ serialized_baseline_' = serialized_baseline_
          /\ DOMAIN last'.report = DOMAIN anomalies_
          /\ \A p \in DOMAIN anomalies_ :
                /\ last'.report[p].severity = anomalies_[p].severity_
                /\ last'.report[p].path = anomalies_[p].path_
          /\ last.op = "GetSchemaDiff" => last'.report = last.report]_vars

\* A report was rendered of an accumulator at ERROR whose two
\* SCHEMA_NEW_COLUMN descriptions were collapsed into one reason.
C11_Witness ==
    /\ last.op = "GetSchemaDiff"
    /\ \E p \in DOMAIN anomalies_ :
          /\ Len(anomalies_[p].descriptions_) = 2
          /\ Len(last.report[p].reason) = 1
          /\ anomalies_[p].severity_ = "ERROR"
          /\ last.report[p].severity = "ERROR"

\* The last call was one of the two sweeps.
AfterSweep == last.op \in {"FindChanges", "FindSkew"}

\* The accumulator a sweep makes for a path that has none: seeded from the
\* baseline, no descriptions, severity UNKNOWN.
Seeded(path) ==
    [schema_ |-> [valid |-> TRUE, feat |-> serialized_baseline_.feat],
     path_ |-> path, descriptions_ |-> <<>>, severity_ |-> "UNKNOWN"]

\* The state of path's accumulator when the last call began.
AtCallStart(path) ==
    IF path \in DOMAIN last.before THEN last.before[path] ELSE Seeded(path)

\* A mutating operation of the last call was applied to path.
Touched(path) ==
    \E i \in 1..Len(Log) : Log[i].op \in Mutations /\ Log[i].path = path

\* What C12 says of the state after a sweep.
Isolated ==
    AfterSweep =>
       /\ \A i \in 1..Len(Log) :
             Log[i].op \in Mutations =>
                /\ Log[i].before = AtCallStart(Log[i].path)
                /\ Log[i].path \in DOMAIN anomalies_ =>
                      anomalies_[Log[i].path] = Log[i].after
       /\ \A q \in Paths : ~Touched(q) => SameEntry(last.before, anomalies_, q)

\* C12: no call changes the baseline; an operation on the accumulator of p
\* starts from p's own accumulator, or from one seeded from the unmodified
\* baseline when p has none, whatever was done to other paths before it
\* in the same sweep; the accumulator of p stays as that operation left it
\* whatever is done to other paths after it; and an accumulator no operation
\* was applied to is as it was before the call.
C12_PrivateSchemaIsolation ==
    [][serialized_baseline_' = serialized_baseline_ /\ Isolated']_vars

\* One missing sweep observed both a and b as missing: each is deprecated in
\* its own accumulator's schema only, and both are active in the baseline.
C12_Witness ==
    /\ AfterFindChanges
    /\ \E i, j \in 1..Len(Log) :
          /\ i < j
          /\ Log[i].op = "ObserveMissing" /\ Log[i].path = <<"a">>
          /\ Log[j].op = "ObserveMissing" /\ Log[j].path = <<"b">>
    /\ {<<"a">>, <<"b">>} \subseteq DOMAIN anomalies_
    /\ anomalies_[<<"a">>].schema_.feat[<<"a">>] = "deprecated"
    /\ anomalies_[<<"a">>].schema_.feat[<<"b">>] = "active"
    /\ anomalies_[<<"b">>].schema_.feat[<<"b">>] = "deprecated"
    /\ anomalies_[<<"b">>].schema_.feat[<<"a">>] = "active"
    /\ serialized_baseline_.feat[<<"a">>] = "active"
    /\ serialized_baseline_.feat[<<"b">>] = "active"

\* A notice was logged for path by the last call.
Noticed(path) ==
    \E i \in 1..Len(Log) : Log[i].op = "LogError" /\ Log[i].path = path

\* path is required and is in neither the statistics nor the baseline.
WhollyAbsent(path) ==
    /\ features_needed.present
    /\ path \in features_needed.paths
    /\ ~InStats(statistics, path)
    /\ serialized_baseline_.feat[path] = "absent"

\* C13: for a required path that is in neither the statistics nor the
\* baseline, FindChanges visits nothing and applies nothing to it, its map
\* entry is as before the call, a call that does not fail elsewhere returns
\* OK and logs the notice for it, and a failing call failed on another path;
\* notices are logged for such paths only.
C13_WhollyAbsentIsAdvisory ==
    AfterFindChanges =>
       /\ \A p \in Paths :
             WhollyAbsent(p) =>
                /\ ~Touched(p)
                /\ \A i \in 1..Len(Log) :
                      ~(Log[i].op = "Visit" /\ Log[i].path = p)
                /\ SameEntry(last.before, anomalies_, p)
                /\ last.status = "OK" <=> Noticed(p)
                /\ last.status /= "OK" =>
                      /\ Log /= <<>>
                      /\ Log[Len(Log)].op \in {"Update", "CreateNewField"}
                      /\ ~Log[Len(Log)].res.ok
                      /\ Log[Len(Log)].path /= p
       /\ \A p \in Paths : Noticed(p) => WhollyAbsent(p)

\* The struct's child is required and is in neither the data nor the
\* baseline, while another feature got an accumulator: the call returned
\* OK, logged the notice and the map has no entry for the child.
C13_Witness ==
    /\ AfterFindChanges
    /\ WhollyAbsent(<<"a", "c">>)
    /\ last.status = "OK"
    /\ Noticed(<<"a", "c">>)
    /\ <<"a", "c">> \notin DOMAIN anomalies_
    /\ anomalies_ /= EmptyMap

\* C14 as stated: in the creation branch CreateNewField is always invoked on
\* a fresh accumulator seeded from the baseline, never on one that a prior
\* sweep left in the map.
C14_CreationOnFreshAccumulator ==
    AfterFindChanges =>
       \A i \in 1..Len(Log) :
          Log[i].op = "CreateNewField" => Log[i].before = Seeded(Log[i].path)

\* C14 as amended: in the creation branch CreateNewField is invoked on the
\* accumulator the map holds for the path when there is one, whose
\* descriptions and severity are carried on, and on a fresh accumulator
\* seeded from the baseline only when the map holds none.
C14_CreationReusesExisting ==
    AfterFindChanges =>
       \A i \in 1..Len(Log) :
          Log[i].op = "CreateNewField" =>
             LET p == Log[i].path
             IN  /\ Log[i].before = AtCallStart(p)
                 /\ p \in DOMAIN last.before =>
                       /\ IsPrefix(last.before[p].descriptions_,
                                   Log[i].after.descriptions_)
                       /\ AtLeast(Log[i].after.severity_,
                                  last.before[p].severity_)
                       /\ anomalies_[p] = Log[i].after

\* FindSkew committed an accumulator with a skew description for a feature
\* that is not in the baseline; the creation branch of the next FindChanges
\* appended the new-column description to it.
C14_Witness ==
    /\ AfterFindChanges
    /\ \E i \in 1..Len(Log) :
          /\ Log[i].op = "CreateNewField"
          /\ Log[i].path \in DOMAIN last.before
          /\ Log[i].before.descriptions_ = <<SkewDescription>>
          /\ Log[i].after.descriptions_ =
                <<SkewDescription, NewColumnDescription>>

\* The last call was GenericUpdate, for CalledPath; CalledBack says that its
\* callback was invoked, and Callback is the record of that invocation.
AfterGenericUpdate == last.op = "GenericUpdate"

CalledPath == Log[1].path

CalledBack == Len(Log) = 2

Callback == Log[2]

\* Every entry of the map before the last call is in the map, unchanged.
OthersUnchanged(path) ==
    \A q \in DOMAIN last.before \ {path} :
        q \in DOMAIN anomalies_ /\ anomalies_[q] = last.before[q]

\* C15: GenericUpdate for a path without accumulator, whose callback
\* succeeds, runs the callback on an accumulator seeded from the baseline;
\* if that accumulator then has no descriptions and severity UNKNOWN the map
\* is as before the call, otherwise the path, with that accumulator, is the
\* one key added and every other entry is as before.
C15_CommitOrDiscard ==
    (/\ AfterGenericUpdate
     /\ CalledPath \notin DOMAIN last.before
     /\ last.status = "OK")
    => /\ CalledBack
       /\ Callback.path = CalledPath
       /\ Callback.before = Seeded(CalledPath)
       /\ IF Callback.after.descriptions_ = <<>>
             /\ Callback.after.severity_ = "UNKNOWN"
          THEN anomalies_ = last.before
          ELSE /\ DOMAIN anomalies_ = DOMAIN last.before \cup {CalledPath}
               /\ anomalies_[CalledPath] = Callback.after
               /\ OthersUnchanged(CalledPath)

\* With an accumulator in the map for another feature, an update that found
\* nothing was applied to a feature without accumulator: the map is as it
\* was.
C15_Witness ==
    /\ AfterGenericUpdate
    /\ last.status = "OK"
    /\ last.before /= EmptyMap
    /\ CalledPath \notin DOMAIN last.before
    /\ CalledBack
    /\ Callback.op = "Update"
    /\ FoundNothing(Callback.res)
    /\ anomalies_ = last.before

\* C20: GenericUpdate for a path without accumulator returns an error and
\* leaves the map as it was when the baseline does not parse, in which case
\* the callback is not invoked, and when the callback returns an error.
C20_ErrorLeavesMapUnchanged ==
    (/\ AfterGenericUpdate
     /\ CalledPath \notin DOMAIN last.before)
    => /\ ~serialized_baseline_.valid =>
             /\ ~CalledBack
             /\ last.status = "ERROR"
             /\ anomalies_ = last.before
       /\ (CalledBack /\ ~Callback.res.ok) =>
             /\ last.status = "ERROR"
             /\ anomalies_ = last.before
       /\ last.status = "ERROR" =>
             \/ ~serialized_baseline_.valid
             \/ CalledBack /\ ~Callback.res.ok

\* With an accumulator in the map for another feature, the evaluator failed,
\* having written a description and a severity to its output parameters, on
\* a feature without accumulator: error returned, map as it was.
C20_Witness ==
    /\ AfterGenericUpdate
    /\ last.before /= EmptyMap
    /\ CalledPath \notin DOMAIN last.before
    /\ CalledBack
    /\ Callback.op = "Update"
    /\ ~Callback.res.ok
    /\ Callback.res.descriptions /= <<>>
    /\ last.status = "ERROR"
    /\ anomalies_ = last.before

\* The operations that reach an accumulator through GenericUpdate.
ViaGenericUpdate == {"Update", "ObserveMissing", "UpdateSkewComparator"}

\* What C16 says of the state after a sweep: an operation GenericUpdate
\* applied to a path that had an accumulator was applied to that accumulator,
\* and the map holds what the operation left, also when it failed.
InPlace ==
    AfterSweep =>
       \A i \in 1..Len(Log) :
          (Log[i].op \in ViaGenericUpdate
              /\ Log[i].path \in DOMAIN last.before) =>
             /\ Log[i].before = last.before[Log[i].path]
             /\ Log[i].path \in DOMAIN anomalies_
             /\ anomalies_[Log[i].path] = Log[i].after

\* C16: no call of FindChanges, FindSkew or GetSchemaDiff, successful or
\* failed, removes a key from the map, and GenericUpdate on an existing key
\* mutates the stored accumulator in place.
C16_KeysNeverRemoved ==
    [][DOMAIN anomalies_ \subseteq DOMAIN anomalies_' /\ InPlace']_vars

\* The evaluator failed on a feature whose accumulator an earlier call had
\* committed, in a map of two entries: the call returned an error and both
\* keys are still there.
C16_Witness ==
    /\ AfterFindChanges
    /\ last.status = "ERROR"
    /\ Cardinality(DOMAIN last.before) = 2
    /\ DOMAIN anomalies_ = DOMAIN last.before
    /\ \E i \in 1..Len(Log) :
          /\ Log[i].op = "Update"
          /\ ~Log[i].res.ok
          /\ Log[i].path \in DOMAIN last.before

\* The walk of the last call entered the node of path.
Visited(path) ==
    \E i \in 1..Len(Log) : Log[i].op = "Visit" /\ Log[i].path = path

\* The update of path succeeded and did not leave, in the map, an
\* accumulator in whose schema path is deprecated.
UpdatedAndKept(path) ==
    \E j \in 1..Len(Log) :
       /\ Log[j].op = "Update"
       /\ Log[j].path = path
       /\ Log[j].res.ok
       /\ ~(/\ path \in DOMAIN anomalies_
            /\ anomalies_[path] = Log[j].after
            /\ Log[j].after.schema_.feat[path] = "deprecated")

\* C17: the walk enters a child of a node it entered if and only if the
\* node's path is in the baseline and not deprecated there, its update
\* succeeded, and the map does not hold, after the update, an accumulator
\* in whose schema the path is deprecated; so it enters no child in the
\* creation branch and in the ignored branch.  A child is entered only from
\* its parent.
C17_RecursionRule ==
    AfterFindChanges =>
       \A c \in Paths :
          (~IsRoot(c) /\ InStats(statistics, c)) =>
             /\ Visited(c) => Visited(Parent(c))
             /\ Visited(Parent(c)) =>
                   (Visited(c) <=>
                       /\ serialized_baseline_.feat[Parent(c)] = "active"
                       /\ UpdatedAndKept(Parent(c)))
             /\ serialized_baseline_.feat[Parent(c)] = "absent" => ~Visited(c)

\* The evaluator's update of the struct dropped it: its accumulator is in
\* the map with the struct deprecated in its schema, the child, which has
\* statistics, was not entered, and the walk went on to the next root.
C17_Witness ==
    /\ AfterFindChanges
    /\ statistics = PathOrder
    /\ serialized_baseline_.feat[<<"a">>] = "active"
    /\ \E j \in 1..Len(Log) :
          /\ Log[j].op = "Update"
          /\ Log[j].path = <<"a">>
          /\ Log[j].res.ok
          /\ Log[j].res.deprecate
    /\ <<"a">> \in DOMAIN anomalies_
    /\ anomalies_[<<"a">>].schema_.feat[<<"a">>] = "deprecated"
    /\ ~Visited(<<"a", "c">>)
    /\ Visited(<<"b">>)

\* The evaluator failed in the i-th entry of the call log.
EvaluatorFailedAt(i) ==
    Log[i].op \in {"Update", "CreateNewField"} /\ ~Log[i].res.ok

\* The j-th entry of the call log left an accumulator in the map.
CommittedAt(j) ==
    /\ Log[j].op \in Mutations
    /\ Log[j].path \in DOMAIN last.before \/ is_problem(Log[j].after)

\* C18: when the evaluator fails for a node, FindChanges returns an error,
\* the failing invocation is the last thing the call did (no later node, no
\* ObserveMissing, no notice), and the accumulator every earlier operation
\* of the call committed is in the map as that operation left it; on a
\* baseline that parses FindChanges fails in no other way.
C18_EvaluatorFailureAborts ==
    AfterFindChanges =>
       /\ \A i \in 1..Len(Log) :
             EvaluatorFailedAt(i) =>
                /\ last.status = "ERROR"
                /\ i = Len(Log)
                /\ \A j \in 1..Len(Log) : Log[j].op /= "ObserveMissing"
                /\ \A j \in 1..(i - 1) :
                      CommittedAt(j) =>
                         /\ Log[j].path \in DOMAIN anomalies_
                         /\ anomalies_[Log[j].path] = Log[j].after
       /\ last.status = "ERROR" =>
             Log /= <<>> /\ EvaluatorFailedAt(Len(Log))

\* The update of a committed a new accumulator, then the evaluator failed
\* on b: the call returned an error, a's accumulator is in the map, and
\* a.c, which is in the baseline and not in the data, was not observed as
\* missing.
C18_Witness ==
    /\ AfterFindChanges
    /\ last.status = "ERROR"
    /\ statistics = <<(<<"a">>), (<<"b">>)>>
    /\ serialized_baseline_.feat[<<"a", "c">>] = "active"
    /\ Log[Len(Log)].op = "Update"
    /\ Log[Len(Log)].path = <<"b">>
    /\ ~Log[Len(Log)].res.ok
    /\ <<"a">> \notin DOMAIN last.before
    /\ <<"a">> \in DOMAIN anomalies_
    /\ <<"a", "c">> \notin DOMAIN anomalies_

\* The descriptions an operation of hist contributes.
OpDescriptions(h) ==
    CASE h.op \in {"Update", "CreateNewField"} ->
            IF h.res.ok THEN h.res.descriptions ELSE <<>>
      [] h.op = "ObserveMissing" -> <<MissingColumnDescription>>
      [] h.op = "UpdateSkewComparator" -> h.res.descriptions

RECURSIVE AllDescriptions(_)
AllDescriptions(ops) ==
    IF ops = <<>> THEN <<>>
    ELSE OpDescriptions(Head(ops)) \o AllDescriptions(Tail(ops))

\* C19: for every operation on an accumulator the description list before
\* it is a prefix of the list after it, the list is what the operations
\* contributed in the order they ran, and an accumulator that is a problem
\* before an operation is a problem after it.
C19_DescriptionsAppendOnly ==
    /\ \A i \in 1..Len(hist) :
          /\ IsPrefix(hist[i].before.descriptions_,
                      hist[i].after.descriptions_)
          /\ is_problem(hist[i].before) => is_problem(hist[i].after)
    /\ acc.descriptions_ = AllDescriptions(hist)

\* Skew was found, then a creation returned a description, then the
\* evaluator failed: the list holds the two descriptions in that order.
C19_Witness ==
    /\ Len(hist) = 3
    /\ hist[1].op = "UpdateSkewComparator"
    /\ hist[2].op = "CreateNewField"
    /\ hist[3].op = "Update" /\ ~hist[3].res.ok
    /\ acc.descriptions_ = <<SkewDescription, NewColumnDescription>>
    /\ is_problem(acc)

====
